---- MODULE Spec2Model ----
(***************************************************************************)
(* Model of src/telegram_bot.py: class ChatGPT3TelegramBot.                *)
(*                                                                         *)
(* The bot holds a configuration (the allow-list string) and ONE backend   *)
(* object gpt3_bot.  The dispatcher delivers one update at a time to one   *)
(* of the four handlers start / reset / help / prompt.  A handler makes an *)
(* ordered series of outbound calls (transport sends, backend calls); the  *)
(* series made for the update handled last is kept in `calls`.             *)
(*                                                                         *)
(* Strings the code inspects character by character (the allow-list and    *)
(* str(user id)) are sequences of one-character strings; strings the code  *)
(* only passes along are TLA+ strings.                                     *)
(*                                                                         *)
(* The transport (context.bot.send_message / send_chat_action) is taken to *)
(* accept every call; the backend may return or raise on every call.       *)
(***************************************************************************)
EXTENDS Integers, Sequences, FiniteSets, TLC

VARIABLES
    config,        \* self.config['allowed_user_ids'], a sequence of characters
    conversation,  \* context held by the single self.gpt3_bot object
    update,        \* the update handled last
    calls,         \* outbound calls made while handling `update`, in order
    raised,        \* TRUE iff the handler let an exception escape
    allowed,       \* outcome of is_allowed for `update`: "yes", "no", "unchecked"
    handled,       \* number of updates handled so far
    authors,       \* who sent each message of `conversation` (bookkeeping only)
    dropped,       \* `authors` of the conversation discarded last (bookkeeping only)
    tally          \* running counts of events and of backend calls

vars == <<config, conversation, update, calls, raised, allowed, handled, authors,
          dropped, tally>>

----------------------------------------------------------------------------
(* Bounds *)

MaxEvents == 3       \* updates delivered in one run
MaxConfigLen == 3    \* length of the generated allow-list strings

----------------------------------------------------------------------------
(* Strings as character sequences: str(int) and str.split(',') *)

Digits == <<"0", "1", "2", "3", "4", "5", "6", "7", "8", "9">>

RECURSIVE Str(_)
\* Python str(n) for a non-negative int: decimal, no sign, no leading zeros.
Str(n) == IF n < 10 THEN <<Digits[n + 1]>>
          ELSE Str(n \div 10) \o <<Digits[(n % 10) + 1]>>

RECURSIVE Split(_)
\* Python s.split(','): the pieces between commas, empty pieces kept,
\* nothing trimmed; ''.split(',') is [''].
Split(s) ==
    IF s = <<>> THEN << <<>> >>
    ELSE LET rest == Split(Tail(s))
         IN  IF Head(s) = ","
             THEN << <<>> >> \o rest
             ELSE << <<Head(s)>> \o Head(rest) >> \o Tail(rest)

Elements(seq) == {seq[i] : i \in 1..Len(seq)}

----------------------------------------------------------------------------
(* Texts *)

disallowed_message ==
    "Sorry, you are not allowed to use this bot. You can check out the source code at https://github.com/n3d1117/chatgpt-telegram-bot"

HelpText ==
    "/start - Start the bot\n/reset - Reset conversation\n/help - Help menu\n\nOpen source at https://github.com/n3d1117/chatgpt-telegram-bot"

Greeting == "I'm a Chat-GPT3 Bot, please talk to me!"

DoneText == "Done!"

Apology == "I'm having some trouble talking to you, please try again later."

Sentinel == <<"*">>

----------------------------------------------------------------------------
(* Inputs *)

UserIds == {123, 124, 456}                 \* update.message.from_user.id
ChatIds == {10, 20}                        \* update.effective_chat.id
MessageIds == {7, 8}                       \* update.message.message_id
FreeTexts == {"Hi", "Yo"}                  \* update.message.text, not a command
BackendReplies == {"Hi!", "*bold*"}        \* response['message'] of the backend

\* The allow-list "123,456" of the running bot, character by character.
List123_456 == <<"1", "2", "3", ",", "4", "5", "6">>

BotConfigs == {Sentinel, List123_456}

Commands == {"/start", "/reset", "/help"}

Updates ==
    [from_user_id : UserIds, chat_id : ChatIds, message_id : MessageIds,
     text : Commands \cup FreeTexts]

NoUpdate == [from_user_id |-> 0, chat_id |-> 0, message_id |-> 0, text |-> ""]

\* What the backend does with one call: return or raise, and whether the call
\* took effect on its conversation (a call that returns always did).
GetOutcomes ==
    [ok : {TRUE}, message : BackendReplies, applied : {TRUE}]
        \cup [ok : {FALSE}, message : {""}, applied : BOOLEAN]

ResetOutcomes ==
    [ok : {TRUE}, applied : {TRUE}] \cup [ok : {FALSE}, applied : BOOLEAN]

----------------------------------------------------------------------------
(* Outbound calls on the transport: context.bot.* and update.message.* *)

send_message(chat_id, text) ==
    [op |-> "send_message", chat_id |-> chat_id, text |-> text]

send_message_preview_off(chat_id, text) ==
    [op |-> "send_message", chat_id |-> chat_id, text |-> text,
     disable_web_page_preview |-> TRUE]

send_message_reply(chat_id, reply_to_message_id, text, parse_mode) ==
    [op |-> "send_message", chat_id |-> chat_id, text |-> text,
     reply_to_message_id |-> reply_to_message_id, parse_mode |-> parse_mode]

\* update.message.reply_text(text, ...) sends to the chat of the message.
reply_text(u, text) ==
    [op |-> "reply_text", chat_id |-> u.chat_id, text |-> text,
     disable_web_page_preview |-> TRUE]

send_chat_action(chat_id, action) ==
    [op |-> "send_chat_action", chat_id |-> chat_id, action |-> action]

----------------------------------------------------------------------------
(* The backend object self.gpt3_bot, seen from its two call sites.  Each    *)
(* call is recorded with the conversation it found and with its outcome.    *)

get_chat_response(message, o) ==
    [call |-> [op |-> "get_chat_response", message |-> message,
               context |-> conversation, raised |-> ~o.ok,
               returned |-> o.message],
     raised |-> ~o.ok,
     response |-> [message |-> o.message],
     conversation |-> IF o.applied THEN Append(conversation, message)
                      ELSE conversation]

reset_chat(o) ==
    [call |-> [op |-> "reset_chat", context |-> conversation, raised |-> ~o.ok],
     raised |-> ~o.ok,
     conversation |-> IF o.applied THEN <<>> ELSE conversation]

----------------------------------------------------------------------------
(* The methods of ChatGPT3TelegramBot *)

Result(a, c, r, conv) ==
    [allowed |-> a, calls |-> c, raised |-> r, conversation |-> conv]

\* Variant: substring test on the raw string, `uid in allowed_user_ids`.
allowed_str_substring(uid) ==
    IF config = Sentinel THEN TRUE
    ELSE \E i \in 1..(Len(config) + 1), j \in 0..Len(config) :
             i <= j + 1 /\ SubSeq(config, i, j) = uid

\* Variant: the sentinel test dropped, every string looked up in the list.
allowed_str_no_sentinel(uid) == uid \in Elements(Split(config))

\* `uid in allowed_user_ids.split(',')` behind the sentinel test, on the
\* rendered id.
allowed_str(uid) ==
    IF config = Sentinel THEN TRUE
    ELSE uid \in Elements(Split(config))

is_allowed(u) == allowed_str(Str(u.from_user_id))

send_disallowed_message(u) ==
    <<send_message_preview_off(u.chat_id, disallowed_message)>>

\* Variant: the except branch hands back the failed call's empty response.
get_chatgpt_response_no_fallback(message, o) ==
    LET r == get_chat_response(message, o)
    IN  [calls |-> <<r.call>>,
         response |-> r.response,
         conversation |-> r.conversation]

\* try: return gpt3_bot.get_chat_response(message)
\* except Exception: return {"message": <apology>}
get_chatgpt_response(message, o) ==
    LET r == get_chat_response(message, o)
    IN  [calls |-> <<r.call>>,
         response |-> IF r.raised THEN [message |-> Apology] ELSE r.response,
         conversation |-> r.conversation]

\* Variant: help guarded by the access check like the other handlers.
help_checked(u) ==
    IF ~is_allowed(u)
    THEN Result("no", send_disallowed_message(u), FALSE, conversation)
    ELSE Result("yes", <<reply_text(u, HelpText)>>, FALSE, conversation)

help(u) ==
    Result("unchecked", <<reply_text(u, HelpText)>>, FALSE, conversation)

start(u) ==
    IF ~is_allowed(u)
    THEN Result("no", send_disallowed_message(u), FALSE, conversation)
    ELSE Result("yes", <<send_message(u.chat_id, Greeting)>>, FALSE, conversation)

\* Variant: the confirmation sent before the backend is reset.
reset_done_first(u, o) ==
    IF ~is_allowed(u)
    THEN Result("no", send_disallowed_message(u), FALSE, conversation)
    ELSE LET r == reset_chat(o)
         IN  Result("yes", <<send_message(u.chat_id, DoneText), r.call>>,
                    r.raised, r.conversation)

\* Variant: a failed reset caught and answered with the apology.
reset_caught(u, o) ==
    IF ~is_allowed(u)
    THEN Result("no", send_disallowed_message(u), FALSE, conversation)
    ELSE LET r == reset_chat(o)
         IN  Result("yes",
                    <<r.call, send_message(u.chat_id,
                                           IF r.raised THEN Apology ELSE DoneText)>>,
                    FALSE, r.conversation)

\* Variant: the confirmation sent without resetting the backend.
reset_no_backend(u, o) ==
    IF ~is_allowed(u)
    THEN Result("no", send_disallowed_message(u), FALSE, conversation)
    ELSE Result("yes", <<send_message(u.chat_id, DoneText)>>, FALSE, conversation)

reset(u, o) ==
    IF ~is_allowed(u)
    THEN Result("no", send_disallowed_message(u), FALSE, conversation)
    ELSE LET r == reset_chat(o)
         IN  IF r.raised
             THEN Result("yes", <<r.call>>, TRUE, r.conversation)
             ELSE Result("yes", <<r.call, send_message(u.chat_id, DoneText)>>,
                         FALSE, r.conversation)

\* Variant: the typing indicator sent before the access check.
prompt_typing_first(u, o) ==
    IF ~is_allowed(u)
    THEN Result("no",
                <<send_chat_action(u.chat_id, "typing")>> \o send_disallowed_message(u),
                FALSE, conversation)
    ELSE LET r == get_chatgpt_response(u.text, o)
         IN  Result("yes",
                    <<send_chat_action(u.chat_id, "typing")>>
                        \o r.calls
                        \o <<send_message_reply(u.chat_id, u.message_id,
                                                r.response.message, "Markdown")>>,
                    FALSE, r.conversation)

\* Variant: the typing indicator sent after the backend call.
prompt_typing_late(u, o) ==
    IF ~is_allowed(u)
    THEN Result("no", send_disallowed_message(u), FALSE, conversation)
    ELSE LET r == get_chatgpt_response(u.text, o)
         IN  Result("yes",
                    r.calls
                        \o <<send_chat_action(u.chat_id, "typing")>>
                        \o <<send_message_reply(u.chat_id, u.message_id,
                                                r.response.message, "Markdown")>>,
                    FALSE, r.conversation)

\* Variant: a failed backend call tried a second time.
prompt_retry(u, o) ==
    IF ~is_allowed(u)
    THEN Result("no", send_disallowed_message(u), FALSE, conversation)
    ELSE LET r == get_chatgpt_response(u.text, o)
         IN  Result("yes",
                    <<send_chat_action(u.chat_id, "typing")>>
                        \o r.calls
                        \o (IF r.calls[1].raised THEN r.calls ELSE <<>>)
                        \o <<send_message_reply(u.chat_id, u.message_id,
                                                r.response.message, "Markdown")>>,
                    FALSE, r.conversation)

prompt(u, o) ==
    IF ~is_allowed(u)
    THEN Result("no", send_disallowed_message(u), FALSE, conversation)
    ELSE LET r == get_chatgpt_response(u.text, o)
         IN  Result("yes",
                    <<send_chat_action(u.chat_id, "typing")>>
                        \o r.calls
                        \o <<send_message_reply(u.chat_id, u.message_id,
                                                r.response.message, "Markdown")>>,
                    FALSE, r.conversation)

----------------------------------------------------------------------------
(* The dispatcher: one update at a time, routed by its text *)

RECURSIVE CountOp(_, _)
CountOp(cs, op) ==
    IF cs = <<>> THEN 0
    ELSE (IF Head(cs).op = op THEN 1 ELSE 0) + CountOp(Tail(cs), op)

Handle(u, res) ==
    /\ handled < MaxEvents
    /\ handled' = handled + 1
    /\ update' = u
    /\ calls' = res.calls
    /\ raised' = res.raised
    /\ allowed' = res.allowed
    /\ conversation' = res.conversation
    /\ authors' = IF res.conversation = <<>> THEN <<>>
                  ELSE IF Len(res.conversation) > Len(conversation)
                       THEN Append(authors, u.from_user_id)
                       ELSE authors
    /\ dropped' = IF res.conversation = <<>> /\ conversation # <<>>
                  THEN authors
                  ELSE dropped
    /\ tally' =
         [prompts_allowed |-> tally.prompts_allowed
              + (IF u.text \in FreeTexts /\ res.allowed = "yes" THEN 1 ELSE 0),
          resets_allowed |-> tally.resets_allowed
              + (IF u.text = "/reset" /\ res.allowed = "yes" THEN 1 ELSE 0),
          get_chat_response |-> tally.get_chat_response
              + CountOp(res.calls, "get_chat_response"),
          reset_chat |-> tally.reset_chat + CountOp(res.calls, "reset_chat")]
    /\ UNCHANGED config

\* CommandHandler('start', self.start)
OnStart ==
    \E u \in Updates :
        /\ u.text = "/start"
        /\ Handle(u, start(u))

\* CommandHandler('reset', self.reset)
OnReset ==
    \E u \in Updates, o \in ResetOutcomes :
        /\ u.text = "/reset"
        /\ Handle(u, reset(u, o))

\* CommandHandler('help', self.help)
OnHelp ==
    \E u \in Updates :
        /\ u.text = "/help"
        /\ Handle(u, help(u))

\* MessageHandler(Filters.text & (~Filters.command), self.prompt)
OnText ==
    \E u \in Updates, o \in GetOutcomes :
        /\ u.text \notin Commands
        /\ Handle(u, prompt(u, o))

InitWith(configs) ==
    /\ config \in configs
    /\ conversation = <<>>
    /\ update = NoUpdate
    /\ calls = <<>>
    /\ raised = FALSE
    /\ allowed = "unchecked"
    /\ handled = 0
    /\ authors = <<>>
    /\ dropped = <<>>
    /\ tally = [prompts_allowed |-> 0, resets_allowed |-> 0,
                get_chat_response |-> 0, reset_chat |-> 0]

Init == InitWith(BotConfigs)

Next == OnStart \/ OnReset \/ OnHelp \/ OnText

Spec == Init /\ [][Next]_vars

----------------------------------------------------------------------------
(* The access policy on its own: every allow-list string over a small       *)
(* alphabet, every sender id of AccessUserIds.                              *)

ConfigAlphabet == {"1", "2", ",", " ", "*"}

RECURSIVE StringsUpTo(_)
StringsUpTo(n) ==
    IF n = 0 THEN {<<>>}
    ELSE LET shorter == StringsUpTo(n - 1)
         IN  shorter \cup {Append(s, c) : s \in shorter, c \in ConfigAlphabet}

\* The word "all", which the code does not treat as a sentinel.
AllWord == <<"a", "l", "l">>

ConfigStrings == StringsUpTo(MaxConfigLen) \cup {List123_456, AllWord}

AccessUserIds == {0, 1, 2, 11, 12, 21, 123, 124, 456}

\* is_allowed applied to one update; nothing else happens.
CheckAccess ==
    \E id \in AccessUserIds :
        LET u == [from_user_id |-> id, chat_id |-> 10, message_id |-> 7,
                  text |-> "/start"]
        IN  /\ update' = u
            /\ allowed' = IF is_allowed(u) THEN "yes" ELSE "no"
            /\ UNCHANGED <<config, conversation, calls, raised, handled, authors,
                           dropped, tally>>

InitAccess == InitWith(ConfigStrings)

NextAccess == CheckAccess

SpecAccess == InitAccess /\ [][NextAccess]_vars

----------------------------------------------------------------------------
(* Properties.  `update`, `calls`, `raised` describe the update handled     *)
(* last; the predicates below classify it.                                  *)

IsStartEvent == update.text = "/start"
IsResetEvent == update.text = "/reset"
IsHelpEvent == update.text = "/help"
IsTextEvent == update.text \in FreeTexts

\* The calls of `cs` that put a message in a chat.
Sent(cs) == SelectSeq(cs, LAMBDA c : c.op \in {"send_message", "reply_text"})

BackendCalls(cs) == SelectSeq(cs, LAMBDA c : c.op \in {"get_chat_response", "reset_chat"})

SomeCallRaised(cs, op) == \E i \in 1..Len(cs) : cs[i].op = op /\ cs[i].raised

\* C1: when start, reset or prompt handles an update whose sender is not
\* allowed, the handler makes exactly one outbound call, a send_message of the
\* disallowed notice to the update's chat; it sends no typing indicator, calls
\* neither get_chat_response nor reset_chat, raises nothing and leaves the
\* backend conversation as it was.
C1_DisallowedGetsOneRejection ==
    [][ ( /\ update'.text \in {"/start", "/reset"} \cup FreeTexts
          /\ ~is_allowed(update') )
        => /\ Len(calls') = 1
           /\ calls'[1].op = "send_message"
           /\ calls'[1].text = disallowed_message
           /\ calls'[1].chat_id = update'.chat_id
           /\ allowed' = "no"
           /\ ~raised'
           /\ conversation' = conversation
           /\ tally'.get_chat_response = tally.get_chat_response
           /\ tally'.reset_chat = tally.reset_chat ]_vars

\* A disallowed sender's free text has been handled while the backend holds a
\* conversation.
C1_Witness ==
    /\ IsTextEvent
    /\ ~is_allowed(update)
    /\ Len(calls) = 1
    /\ conversation # <<>>

\* C4: when prompt handles an allowed sender's text and get_chat_response
\* raises, nothing escapes the handler and exactly one message is sent: the
\* fixed apology, to the update's chat, threaded to the update's message id.
C4_BackendFailureGivesApology ==
    ( /\ IsTextEvent
      /\ allowed = "yes"
      /\ SomeCallRaised(calls, "get_chat_response") )
    => /\ ~raised
       /\ Len(Sent(calls)) = 1
       /\ Sent(calls)[1].op = "send_message"
       /\ Sent(calls)[1].text = Apology
       /\ Sent(calls)[1].chat_id = update.chat_id
       /\ Sent(calls)[1].reply_to_message_id = update.message_id
       /\ calls[Len(calls)] = Sent(calls)[1]

\* The backend call of an allowed sender's text has raised.
C4_Witness ==
    /\ IsTextEvent
    /\ allowed = "yes"
    /\ SomeCallRaised(calls, "get_chat_response")
    /\ Len(Sent(calls)) = 1

\* C5: when prompt handles an allowed sender's text and the backend call does
\* not raise, the calls are, in this order: the typing indicator to the
\* update's chat, get_chat_response with the update's text, one send_message
\* carrying the returned text, Markdown parse mode, the update's chat id and
\* the update's message id as reply target.
C5_SuccessOrderAndReply ==
    ( /\ IsTextEvent
      /\ allowed = "yes"
      /\ ~SomeCallRaised(calls, "get_chat_response") )
    => /\ Len(calls) = 3
       /\ calls[1] = send_chat_action(update.chat_id, "typing")
       /\ calls[2].op = "get_chat_response"
       /\ calls[2].message = update.text
       /\ calls[3] = send_message_reply(update.chat_id, update.message_id,
                                        calls[2].returned, "Markdown")
       /\ calls[3].text \in BackendReplies
       /\ ~raised

\* An allowed sender's text has been answered with the backend's reply.
C5_Witness ==
    /\ IsTextEvent
    /\ allowed = "yes"
    /\ Len(calls) = 3
    /\ calls[3].text = "Hi!"

\* C6: when reset handles an allowed sender's /reset and reset_chat does not
\* raise, reset_chat is called exactly once, before anything is sent, and
\* exactly one message follows: "Done!" to the update's chat.
C6_ResetThenDone ==
    ( /\ IsResetEvent
      /\ allowed = "yes"
      /\ ~SomeCallRaised(calls, "reset_chat") )
    => /\ Len(calls) = 2
       /\ calls[1].op = "reset_chat"
       /\ calls[2] = send_message(update.chat_id, DoneText)
       /\ ~raised

\* An allowed sender's /reset has been confirmed.
C6_Witness ==
    /\ IsResetEvent
    /\ allowed = "yes"
    /\ Len(Sent(calls)) = 1
    /\ Sent(calls)[1].text = DoneText

\* C7: help makes no access check: for every sender, allowed or not, it makes
\* exactly one call, a reply with the usage text and link preview off; it
\* never sends the disallowed notice and never calls the backend.
C7_HelpUnconditional ==
    IsHelpEvent
    => /\ calls = <<reply_text(update, HelpText)>>
       /\ calls[1].disable_web_page_preview
       /\ calls[1].text # disallowed_message
       /\ BackendCalls(calls) = <<>>
       /\ allowed = "unchecked"
       /\ ~raised

\* /help from a sender the allow-list rejects has been answered.
C7_Witness ==
    /\ IsHelpEvent
    /\ ~is_allowed(update)
    /\ Len(calls) = 1

\* C8: no retries: one update leads to at most one get_chat_response call and
\* at most one reset_chat call, and the number of get_chat_response calls made
\* so far equals the number of free-text updates of allowed senders handled so
\* far.
C8_NoRetry ==
    /\ CountOp(calls, "get_chat_response") <= 1
    /\ CountOp(calls, "reset_chat") <= 1
    /\ tally.get_chat_response = tally.prompts_allowed
    /\ tally.reset_chat <= tally.resets_allowed

\* Two backend calls have been made, the last of which raised.
C8_Witness ==
    /\ IsTextEvent
    /\ SomeCallRaised(calls, "get_chat_response")
    /\ tally.get_chat_response = 2
    /\ tally.prompts_allowed = 2

\* C9: when reset handles an allowed sender's /reset and reset_chat raises,
\* the exception escapes the handler and nothing is sent for that update:
\* neither "Done!" nor the apology.
C9_ResetFailurePropagates ==
    ( /\ IsResetEvent
      /\ allowed = "yes"
      /\ SomeCallRaised(calls, "reset_chat") )
    => /\ raised
       /\ Sent(calls) = <<>>
       /\ Len(calls) = 1

\* reset_chat has raised for an allowed sender.
C9_Witness ==
    /\ IsResetEvent
    /\ allowed = "yes"
    /\ SomeCallRaised(calls, "reset_chat")
    /\ raised

\* C10: one conversation for all users and chats: a /reset of any allowed
\* sender that does not raise empties the conversation whoever built it; every
\* allowed sender's text is put to the backend with the conversation as the
\* previous updates of all senders left it, and is added to it; an update of a
\* sender who is not allowed never changes the conversation.
C10_SharedConversation ==
    [][ /\ ( /\ update'.text = "/reset"
             /\ is_allowed(update')
             /\ ~raised' )
           => conversation' = <<>>
        /\ ( /\ update'.text \in FreeTexts
             /\ is_allowed(update') )
           => /\ \E i \in 1..Len(calls') :
                    /\ calls'[i].op = "get_chat_response"
                    /\ calls'[i].context = conversation
              /\ ( ~SomeCallRaised(calls', "get_chat_response")
                   => conversation' = Append(conversation, update'.text) )
        /\ ~is_allowed(update') => conversation' = conversation ]_vars

\* Under the list "123,456", user 123's /reset has emptied a conversation
\* that held a message of user 456.
C10_Witness ==
    /\ config = List123_456
    /\ IsResetEvent
    /\ update.from_user_id = 123
    /\ ~raised
    /\ conversation = <<>>
    /\ 456 \in Elements(dropped)

----------------------------------------------------------------------------
(* Properties of the access policy, stated without Split and Str *)

IsDigit(c) == \E d \in 1..10 : Digits[d] = c

DigitValue(c) == (CHOOSE d \in 1..10 : Digits[d] = c) - 1

RECURSIVE DecimalValue(_)
DecimalValue(s) ==
    IF s = <<>> THEN 0
    ELSE DecimalValue(SubSeq(s, 1, Len(s) - 1)) * 10 + DigitValue(s[Len(s)])

\* s is the decimal numeral of n: digits only, no leading zero.
IsNumeralOf(s, n) ==
    /\ s # <<>>
    /\ \A k \in 1..Len(s) : IsDigit(s[k])
    /\ Len(s) > 1 => s[1] # "0"
    /\ DecimalValue(s) = n

\* cfg[i..j] is one comma-separated item of cfg: bounded by commas or the
\* ends of cfg, and holding no comma.
IsItem(cfg, i, j) ==
    /\ i = 1 \/ cfg[i - 1] = ","
    /\ j = Len(cfg) \/ cfg[j + 1] = ","
    /\ \A k \in i..j : cfg[k] # ","

Listed(cfg, n) ==
    \E i \in 1..(Len(cfg) + 1), j \in 0..Len(cfg) :
        /\ i <= j + 1
        /\ IsItem(cfg, i, j)
        /\ IsNumeralOf(SubSeq(cfg, i, j), n)

Checked == update # NoUpdate

\* C2: when the allow-list is not the sentinel, is_allowed holds exactly when
\* the decimal numeral of the sender id equals, character for character, one
\* of the comma-separated items of the allow-list string; so every id not
\* listed is rejected, and under "123,456" the id 123 is accepted and 124 is
\* rejected.
C2_ExactListMembership ==
    (Checked /\ config # Sentinel)
    => /\ allowed = "yes" <=> Listed(config, update.from_user_id)
       /\ config = List123_456
          => (allowed = "yes" <=> update.from_user_id \in {123, 456})

\* Under "123,456" the id 124 has been rejected.
C2_Witness ==
    /\ config = List123_456
    /\ update.from_user_id = 124
    /\ allowed = "no"

\* C3: when the allow-list is the sentinel, is_allowed holds for every sender
\* id, and the test behind it holds for every string, the empty one included.
C3_SentinelAllowsAll ==
    config = Sentinel
    => /\ Checked => allowed = "yes"
       /\ \A uid \in ConfigStrings : allowed_str(uid)
       /\ allowed_str(<<>>)

\* Under the sentinel an id has been checked and accepted.
C3_Witness ==
    /\ config = Sentinel
    /\ update.from_user_id = 124
    /\ allowed = "yes"

====
